---- MODULE Spec2Model ----
(***************************************************************************)
(* Round-based combat (battle.py, its simpler copy warhammer.py) and the   *)
(* tracker window's damage application (tracker.py), as one state machine. *)
(* A run is one program: the complete engine, the simpler engine, the      *)
(* tracker, or a caller of character_io.py.                                *)
(***************************************************************************)
EXTENDS Integers, Sequences, FiniteSets, TLC

VARIABLES
    mode,          \* which program runs: "battle", "warhammer", "tracker", "character_io"
    combatants,    \* Battle.combatants / MainWindow.combatants: the roster, in order
    wounds,        \* character.combat_stats.wounds of every combatant
    is_active,     \* Combatant.is_active
    initiative,    \* Combatant.initiative
    position,      \* Combatant.position
    conditions,    \* character.conditions (names)
    turn_order,    \* Battle.turn_order
    round_number,  \* Battle.round_number
    pc,            \* where start_battle() is: NotStarted, Boundary, InRound, Over, Error
    idx,           \* the slot of turn_order the running round dispatches next
    turns,         \* the turns each combatant took in the running round (history)
    rounds,        \* the rounds execute_round has run to its end (history)
    last           \* what the last step did (history, read by the properties only)

vars == <<mode, combatants, wounds, is_active, initiative, position, conditions,
          turn_order, round_number, pc, idx, turns, rounds, last>>

-----------------------------------------------------------------------------
(* Bounds of the model *)

\* the largest roster
MaxCombatants == 3
\* rounds a battle is followed for
MaxRounds == 2
\* the largest table of the tracker
MaxRows == 1
\* conditions the tracker attaches in one run
MaxConditions == 1
\* the tracker's damage field holds an integer in -MaxDamageInput..MaxDamageInput
\* (only some of them are typed, see DamageInputs)
MaxDamageInput == 12

-----------------------------------------------------------------------------
(* The characters a roster is made of *)

Sword == [cls |-> "Weapon", name |-> "Sword", damage |-> 5]
Dagger == [cls |-> "Weapon", name |-> "Dagger", damage |-> 3]
Shield == [cls |-> "Armor", name |-> "Shield", armor_points |-> 1]

\* demo.py's create_character: the stat block of both demo combatants
DemoCharacter(name, team, is_player) ==
    [name |-> name, team |-> team, is_player_character |-> is_player,
     weapon_skill |-> 50, strength |-> 40, toughness |-> 30, agility |-> 30,
     initiative |-> 30, wounds |-> 12, armor_points |-> 2,
     equipment |-> <<Sword>>, talents |-> {"Strike Mighty Blow"},
     is_active |-> TRUE, position |-> <<0, 0>>]

Aldric == DemoCharacter("Aldric", "Heroes", TRUE)
Goblin == DemoCharacter("Goblin", "Monsters", FALSE)
\* always hits, base damage 5 + 4
Striker ==
    [name |-> "Striker", team |-> "Heroes", is_player_character |-> FALSE,
     weapon_skill |-> 100, strength |-> 40, toughness |-> 0, agility |-> 0,
     initiative |-> 21, wounds |-> 9, armor_points |-> 0,
     equipment |-> <<Sword>>, talents |-> {},
     is_active |-> TRUE, position |-> <<1, 2>>]
\* never hits, never defends; a player, so every menu input is tried on it
Dummy ==
    [name |-> "Dummy", team |-> "Monsters", is_player_character |-> TRUE,
     weapon_skill |-> 0, strength |-> 0, toughness |-> 0, agility |-> 0,
     initiative |-> 39, wounds |-> 12, armor_points |-> 0,
     equipment |-> <<Shield, Dagger>>, talents |-> {},
     is_active |-> TRUE, position |-> <<3, 1>>]
\* already at 0 wounds when the battle starts
Fallen == [DemoCharacter("Fallen", "Monsters", FALSE) EXCEPT !.wounds = 0]
\* withdrawn before the battle: is_active false, wounds left
Withdrawn == [DemoCharacter("Withdrawn", "Heroes", FALSE) EXCEPT !.is_active = FALSE]
\* no weapon; toughness and armour no weapon gets through; always dodges
Brawler ==
    [name |-> "Brawler", team |-> "Heroes", is_player_character |-> FALSE,
     weapon_skill |-> 50, strength |-> 30, toughness |-> 100, agility |-> 100,
     initiative |-> 20, wounds |-> 2, armor_points |-> 100,
     equipment |-> <<Shield>>, talents |-> {"Combat Reflexes"},
     is_active |-> TRUE, position |-> <<0, 0>>]

Pool == <<Aldric, Goblin, Striker, Dummy, Fallen, Withdrawn, Brawler>>

Names == {Pool[i].name : i \in DOMAIN Pool}

Character(n) == Pool[CHOOSE i \in DOMAIN Pool : Pool[i].name = n]

RECURSIVE SeqOfSet(_)
\* the members of a set of pool indexes, as the sequence of their names in pool order
SeqOfSet(S) ==
    IF S = {} THEN <<>>
    ELSE LET m == CHOOSE x \in S : \A y \in S : y <= x
         IN  Append(SeqOfSet(S \ {m}), Pool[m].name)

\* the rosters of lo to hi distinct characters
RostersOf(lo, hi) ==
    {SeqOfSet(S) : S \in {T \in SUBSET (DOMAIN Pool) :
                             Cardinality(T) >= lo /\ Cardinality(T) <= hi}}

\* the rosters a battle is started with
Rosters == RostersOf(2, MaxCombatants)

Range(s) == {s[i] : i \in DOMAIN s}

\* the characters put on the tracker's table: the two of the demo, one a player and
\* one not, and one without toughness or armour
TableNames == {"Aldric", "Goblin", "Dummy"}

\* the tables the tracker holds
Tables == {table \in RostersOf(1, MaxRows) : Range(table) \subseteq TableNames}

Max(a, b) == IF a >= b THEN a ELSE b

-----------------------------------------------------------------------------
(* Dice and inputs *)

\* random.randint(1, 10) of roll_initiative: the faces tried
D10 == {1, 10}
\* random.randint(1, 100) of the hit, parry and dodge rolls: the faces tried, on
\* both sides of a weapon skill of 50, and the highest
D100 == {50, 51, 100}
\* what input() returns at a menu: the three listed choices, anything else
MenuInputs == {"1", "2", "3", "x"}

-----------------------------------------------------------------------------
(* Combatant *)

has_talent(c, talent) == talent \in Character(c).talents

\* Combatant.roll_initiative: the value it assigns to self.initiative
roll_initiative(c, roll) ==
    LET base_initiative == Character(c).initiative
    IN  IF has_talent(c, "Combat Reflexes")
        THEN base_initiative + roll + 10
        ELSE base_initiative + roll

\* Combatant.is_conscious, on the wounds w
is_conscious(w, c) == w[c] > 0

\* the combatants of another team, conscious or not
enemies_conscious_or_not(roster, w, self) ==
    SelectSeq(roster, LAMBDA c : Character(c).team # Character(self).team)

\* Combatant.find_target: the enemies of self in roster order, "none" when empty
enemies(roster, w, self) ==
    SelectSeq(roster, LAMBDA c : Character(c).team # Character(self).team
                                 /\ is_conscious(w, c))

\* a target choice that takes the last enemy of the roster
find_target_last_enemy(roster, w, self) ==
    IF enemies(roster, w, self) # <<>>
    THEN enemies(roster, w, self)[Len(enemies(roster, w, self))] ELSE "none"

find_target(roster, w, self) ==
    IF enemies(roster, w, self) # <<>> THEN Head(enemies(roster, w, self)) ELSE "none"

Defend(self) ==
    [kind |-> "Defend", actor |-> self, target |-> "none", damage_type |-> "none",
     choice |-> "", damage_choice |-> ""]

\* Combatant.get_ai_action (both engines; the simpler engine's attack has no
\* damage type and reduces as normal damage does)
get_ai_action(roster, w, self) ==
    LET target == find_target(roster, w, self)
    IN  IF target # "none"
        THEN [Defend(self) EXCEPT !.kind = "Attack", !.target = target,
                                  !.damage_type = "normal"]
        ELSE Defend(self)

\* the damage type menu of get_player_action
chosen_damage_type(damage_choice) ==
    CASE damage_choice = "1" -> "normal"
      [] damage_choice = "2" -> "ignore_armor"
      [] damage_choice = "3" -> "pure"
      [] OTHER -> "normal"

\* Combatant.get_player_action of battle.py
get_player_action(roster, w, self, choice, damage_choice) ==
    LET target == find_target(roster, w, self)
    IN  CASE choice = "1" ->
               IF target # "none"
               THEN [Defend(self) EXCEPT !.kind = "Attack", !.target = target,
                        !.damage_type = chosen_damage_type(damage_choice),
                        !.choice = choice, !.damage_choice = damage_choice]
               ELSE [Defend(self) EXCEPT !.choice = choice]
          [] choice = "2" -> [Defend(self) EXCEPT !.kind = "Move", !.choice = choice]
          [] choice = "3" -> [Defend(self) EXCEPT !.choice = choice]
          [] OTHER -> [Defend(self) EXCEPT !.choice = choice]

\* Combatant.decide_action, per engine: warhammer.py's player attacks without asking
decide_action(engine, roster, w, self, choice, damage_choice) ==
    IF Character(self).is_player_character /\ engine = "battle"
    THEN get_player_action(roster, w, self, choice, damage_choice)
    ELSE get_ai_action(roster, w, self)

\* a defense menu whose fallback is parry
get_player_defense_choice_parry_default(defense_choice) ==
    CASE defense_choice = "1" -> "parry"
      [] defense_choice = "2" -> "dodge"
      [] defense_choice = "3" -> "special"
      [] OTHER -> "parry"

\* Combatant.get_player_defense_choice
get_player_defense_choice(defense_choice) ==
    CASE defense_choice = "1" -> "parry"
      [] defense_choice = "2" -> "dodge"
      [] defense_choice = "3" -> "special"
      [] OTHER -> "dodge"

get_ai_defense_choice(c) ==
    IF Character(c).weapon_skill >= Character(c).agility THEN "parry" ELSE "dodge"

decide_defense_method(c, defense_choice) ==
    IF Character(c).is_player_character
    THEN get_player_defense_choice(defense_choice)
    ELSE get_ai_defense_choice(c)

-----------------------------------------------------------------------------
(* AttackAction *)

\* what class AttackAction of battle.py defines: its fields and its methods
AttackActionAttributes ==
    {"actor", "target", "damage_type", "execute", "attempt_parry", "attempt_dodge",
     "attempt_special_defense", "apply_damage", "get_equipped_weapon",
     "calculate_net_damage_static"}

attempt_parry(defender, parry_roll) == parry_roll <= Character(defender).weapon_skill

attempt_dodge(defender, dodge_roll) == dodge_roll <= Character(defender).agility

\* a special defense that always succeeds
attempt_special_defense_succeeds(defender) == TRUE

\* AttackAction.attempt_special_defense: the placeholder, always fails
attempt_special_defense(defender) == FALSE

\* AttackAction.get_equipped_weapon: the Weapon items, the first one is the weapon
weapons(c) == SelectSeq(Character(c).equipment, LAMBDA item : item.cls = "Weapon")

has_weapon(c) == weapons(c) # <<>>

\* weapon.damage + strength // 10, + 1 with Strike Mighty Blow
base_damage_of(attacker) ==
    LET base == Head(weapons(attacker)).damage + (Character(attacker).strength \div 10)
    IN  IF has_talent(attacker, "Strike Mighty Blow") THEN base + 1 ELSE base

\* calculate_net_damage_static without the clamp max(..., 0)
calculate_net_damage_unclamped(toughness, armor_points, base_damage, damage_type) ==
    base_damage
    - (CASE damage_type = "normal" -> (toughness \div 10) + armor_points
         [] damage_type = "ignore_armor" -> toughness \div 10
         [] damage_type = "pure" -> 0
         [] OTHER -> (toughness \div 10) + armor_points)

\* calculate_net_damage_static without its PURE branch: pure falls to the default
calculate_net_damage_pure_reduced(toughness, armor_points, base_damage, damage_type) ==
    Max(base_damage
        - (CASE damage_type = "ignore_armor" -> toughness \div 10
             [] OTHER -> (toughness \div 10) + armor_points), 0)

\* calculate_net_damage_static with armour taken off under every reduced type
calculate_net_damage_armor_always(toughness, armor_points, base_damage, damage_type) ==
    Max(base_damage
        - (CASE damage_type = "pure" -> 0
             [] OTHER -> (toughness \div 10) + armor_points), 0)

\* AttackAction.calculate_net_damage_static of battle.py
calculate_net_damage_static(toughness, armor_points, base_damage, damage_type) ==
    LET toughness_bonus == toughness \div 10
        damage_reduction ==
            CASE damage_type = "normal" -> toughness_bonus + armor_points
              [] damage_type = "ignore_armor" -> toughness_bonus
              [] damage_type = "pure" -> 0
              [] OTHER -> toughness_bonus + armor_points
    IN  Max(base_damage - damage_reduction, 0)

\* AttackAction.apply_damage of warhammer.py: the net damage
warhammer_net_damage(defender, damage) ==
    LET toughness_bonus == Character(defender).toughness \div 10
        damage_reduction == toughness_bonus + Character(defender).armor_points
    IN  Max(damage - damage_reduction, 0)

\* the wounds left after net_damage
wounds_after(w, defender, net_damage) == Max(w[defender] - net_damage, 0)

\* a hit check that any roll passes
attack_hits_any_roll(attacker, attack_roll) == TRUE

\* the hit check of AttackAction.execute: attack_roll <= attacker_ws
attack_hits(attacker, attack_roll) == attack_roll <= Character(attacker).weapon_skill

-----------------------------------------------------------------------------
(* One resolved turn *)

\* the fields of last; a step fills in those it gives a value to
NoStep ==
    [op |-> "init", actor |-> "none", action |-> "none", target |-> "none",
     damage_type |-> "none", choice |-> "", damage_choice |-> "",
     defense_choice |-> "", attack_roll |-> 0, hit |-> FALSE,
     defense_method |-> "none", defense_roll |-> 0, defense_success |-> FALSE,
     armed |-> FALSE, base_damage |-> 0, net_damage |-> 0, raised |-> "none",
     file |-> <<>>, lost |-> "none", field |-> "none", loaded |-> <<>>]

\* AttackAction.execute of battle.py, for the action a of the actor: the record of
\* what it did; net_damage is what it took from the target's wounds
battle_attack(w, a, attack_roll, defense_choice, defense_roll) ==
    LET attacker == a.actor
        defender == a.target
        hit == attack_hits(attacker, attack_roll)
        defense_method == decide_defense_method(defender, defense_choice)
        defense_success ==
            CASE defense_method = "parry" -> attempt_parry(defender, defense_roll)
              [] defense_method = "dodge" -> attempt_dodge(defender, defense_roll)
              [] defense_method = "special" -> attempt_special_defense(defender)
              [] OTHER -> FALSE
        r0 == [NoStep EXCEPT !.op = "turn", !.actor = attacker, !.action = "Attack",
                  !.target = defender, !.damage_type = a.damage_type,
                  !.choice = a.choice, !.damage_choice = a.damage_choice,
                  !.attack_roll = attack_roll, !.hit = hit]
        r1 == [r0 EXCEPT !.defense_method = defense_method,
                  !.defense_choice = IF Character(defender).is_player_character
                                     THEN defense_choice ELSE "",
                  !.defense_roll = IF defense_method \in {"parry", "dodge"}
                                   THEN defense_roll ELSE 0,
                  !.defense_success = defense_success]
    IN  IF ~hit THEN r0
        ELSE IF defense_success THEN r1
        \* apply_damage
        ELSE IF ~has_weapon(attacker) THEN r1
        ELSE IF "calculate_net_damage" \notin AttackActionAttributes
        THEN [r1 EXCEPT !.armed = TRUE, !.base_damage = base_damage_of(attacker),
                        !.raised = "AttributeError"]
        ELSE [r1 EXCEPT !.armed = TRUE, !.base_damage = base_damage_of(attacker),
                        !.net_damage = calculate_net_damage_static(
                            Character(defender).toughness,
                            Character(defender).armor_points,
                            base_damage_of(attacker), a.damage_type)]

\* AttackAction.execute of warhammer.py
warhammer_attack(w, a, attack_roll) ==
    LET attacker == a.actor
        defender == a.target
        hit == attack_hits(attacker, attack_roll)
        r0 == [NoStep EXCEPT !.op = "turn", !.actor = attacker, !.action = "Attack",
                  !.target = defender, !.damage_type = a.damage_type,
                  !.attack_roll = attack_roll, !.hit = hit]
    IN  IF ~hit THEN r0
        ELSE IF ~has_weapon(attacker) THEN r0
        ELSE [r0 EXCEPT !.armed = TRUE, !.base_damage = base_damage_of(attacker),
                        !.net_damage = warhammer_net_damage(defender,
                                                            base_damage_of(attacker))]

\* Action.execute, by the action's class
execute(engine, w, a, attack_roll, defense_choice, defense_roll) ==
    CASE a.kind = "Attack" /\ engine = "battle" ->
             battle_attack(w, a, attack_roll, defense_choice, defense_roll)
      [] a.kind = "Attack" /\ engine = "warhammer" ->
             warhammer_attack(w, a, attack_roll)
      [] OTHER -> [NoStep EXCEPT !.op = "turn", !.actor = a.actor, !.action = a.kind,
                                 !.choice = a.choice]

\* Battle.execute_turn: decide_action, then execute
execute_turn(engine, roster, w, self, choice, damage_choice, attack_roll, defense_choice, defense_roll) ==
    execute(engine, w, decide_action(engine, roster, w, self, choice, damage_choice),
            attack_roll, defense_choice, defense_roll)

-----------------------------------------------------------------------------
(* Battle *)

RECURSIVE insert_desc(_, _, _)
\* x put into s, sorted by key descending, behind every member whose key is not smaller
insert_desc(s, x, key) ==
    IF s = <<>> THEN <<x>>
    ELSE IF key[Head(s)] >= key[x] THEN <<Head(s)>> \o insert_desc(Tail(s), x, key)
    ELSE <<x>> \o s

RECURSIVE sorted_ascending(_, _)
sorted_ascending(s, key) ==
    IF s = <<>> THEN <<>>
    ELSE LET rest == sorted_ascending(SubSeq(s, 1, Len(s) - 1), key)
             x == s[Len(s)]
             n == Cardinality({i \in DOMAIN rest : key[rest[i]] <= key[x]})
         IN  SubSeq(rest, 1, n) \o <<x>> \o SubSeq(rest, n + 1, Len(rest))

\* a descending sort made of an ascending sort and a reversal: equal keys end up in
\* the reverse of their order in s
sorted_then_reversed(s, key) ==
    [i \in 1..Len(s) |-> sorted_ascending(s, key)[Len(s) + 1 - i]]

RECURSIVE sorted_reverse(_, _)
\* sorted(s, key=..., reverse=True): descending, equal keys in their order in s
sorted_reverse(s, key) ==
    IF s = <<>> THEN <<>>
    ELSE insert_desc(sorted_reverse(SubSeq(s, 1, Len(s) - 1), key), s[Len(s)], key)

\* the teams of the active combatants, conscious or not
active_teams_of_active(roster, active, w) ==
    {Character(c).team : c \in {d \in Range(roster) : active[d]}}

\* Battle.is_battle_over: the teams of the active and conscious combatants
active_teams(roster, active, w) ==
    {Character(c).team : c \in {d \in Range(roster) : active[d] /\ is_conscious(w, d)}}

\* is_battle_over with < 1 for <= 1
is_battle_over_no_team(roster, active, w) ==
    Cardinality(active_teams(roster, active, w)) < 1

is_battle_over(roster, active, w) == Cardinality(active_teams(roster, active, w)) <= 1

-----------------------------------------------------------------------------
(* The tracker's inputs *)

DigitChars == <<"0", "1", "2", "3", "4", "5", "6", "7", "8", "9">>

IsDigit(ch) == \E i \in DOMAIN DigitChars : DigitChars[i] = ch

DigitValue(ch) == (CHOOSE i \in DOMAIN DigitChars : DigitChars[i] = ch) - 1

RECURSIVE DigitsValue(_)
\* the number a sequence of digits writes
DigitsValue(t) ==
    IF t = <<>> THEN 0
    ELSE 10 * DigitsValue(SubSeq(t, 1, Len(t) - 1)) + DigitValue(t[Len(t)])

\* int(text): an optional sign and at least one digit, a ValueError otherwise
int(text) ==
    LET signed == text # <<>> /\ Head(text) \in {"-", "+"}
        digits == IF signed THEN Tail(text) ELSE text
    IN  IF digits # <<>> /\ \A i \in DOMAIN digits : IsDigit(digits[i])
        THEN [ok |-> TRUE,
              value |-> IF signed /\ Head(text) = "-" THEN 0 - DigitsValue(digits)
                        ELSE DigitsValue(digits)]
        ELSE [ok |-> FALSE, value |-> 0]

RECURSIVE NatText(_)
NatText(n) ==
    IF n < 10 THEN <<DigitChars[n + 1]>>
    ELSE Append(NatText(n \div 10), DigitChars[(n % 10) + 1])

\* what the user types for the amount n
AmountText(n) == IF n < 0 THEN <<"-">> \o NatText(0 - n) ELSE NatText(n)

\* the amounts typed into the damage field
DamageInputs == {0 - MaxDamageInput, 0, MaxDamageInput}

\* the texts of the damage field: the amounts, and texts that are no integer
DamageTexts == {AmountText(n) : n \in DamageInputs} \cup {<<>>, <<"a", "b">>}

\* the entries of the damage type combo box
DamageTypeEntries == {"Normal", "Ignore Armor", "Pure"}

\* the texts of the condition field
ConditionTexts == {"", "Stunned"}

\* MainWindow.apply_damage: the damage type of the combo box's text
tracker_damage_type(damage_type_str) ==
    CASE damage_type_str = "Normal" -> "normal"
      [] damage_type_str = "Ignore Armor" -> "ignore_armor"
      [] damage_type_str = "Pure" -> "pure"
      [] OTHER -> "normal"

RECURSIVE SumLen(_, _)
SumLen(f, S) ==
    IF S = {} THEN 0
    ELSE LET c == CHOOSE x \in S : TRUE IN Len(f[c]) + SumLen(f, S \ {c})

-----------------------------------------------------------------------------
(* Persistence: plain records (dict) and back *)

\* d.get(key, default); also a dataclass field left to its default by **d
Get(d, key, default) == IF key \in DOMAIN d THEN d[key] ELSE default

\* the record d without the key
Without(d, key) == [k \in DOMAIN d \ {key} |-> d[k]]

\* obj.__dict__ / fields(obj) of an equipment item: its fields, not its class
item_to_dict(item) == Without(item, "cls")

\* Characteristics(**d) and CombatStats(**d): an absent field takes the dataclass
\* default 0 (character_sheet.py)
Characteristics(d) ==
    [weapon_skill |-> Get(d, "weapon_skill", 0), strength |-> Get(d, "strength", 0),
     toughness |-> Get(d, "toughness", 0), agility |-> Get(d, "agility", 0),
     initiative |-> Get(d, "initiative", 0)]

CombatStats(d) ==
    [wounds |-> Get(d, "wounds", 0), armor_points |-> Get(d, "armor_points", 0)]

\* the Combatant object of c in the tracker's table, as the window holds it
CombatantObject(c) ==
    [name |-> c, team |-> Character(c).team, initiative |-> initiative[c],
     is_active |-> is_active[c], position |-> position[c],
     is_player_character |-> Character(c).is_player_character,
     characteristics |-> Characteristics(Character(c)),
     combat_stats |-> [wounds |-> wounds[c],
                       armor_points |-> Character(c).armor_points],
     conditions |-> conditions[c], talents |-> Character(c).talents,
     equipment |-> Character(c).equipment]

\* MainWindow.combatant_to_dict
combatant_to_dict(combatant) ==
    [team |-> combatant.team, initiative |-> combatant.initiative,
     is_active |-> combatant.is_active,
     personal_info |-> [name |-> combatant.name],
     characteristics |-> combatant.characteristics,
     combat_stats |-> combatant.combat_stats,
     conditions |-> [i \in DOMAIN combatant.conditions |->
                        [name |-> combatant.conditions[i]]],
     talents |-> {[name |-> t] : t \in combatant.talents},
     equipment |-> [i \in DOMAIN combatant.equipment |->
                       item_to_dict(combatant.equipment[i])],
     status |-> <<>>]

\* the equipment loop of dict_to_combatant: the class is told by the keys
item_of_dict(item_data) ==
    IF "damage" \in DOMAIN item_data
    THEN [cls |-> "Weapon", name |-> item_data.name, damage |-> item_data.damage]
    ELSE IF "armor_points" \in DOMAIN item_data
    THEN [cls |-> "Armor", name |-> item_data.name,
          armor_points |-> item_data.armor_points]
    ELSE [cls |-> "EquipmentItem", name |-> item_data.name]

\* a load that raised: the exception and the key or argument it names
Raised(exception, key) ==
    [ok |-> FALSE, raised |-> exception, field |-> key, object |-> <<>>]

\* MainWindow.dict_to_combatant: the Combatant, or the exception of a missing key
dict_to_combatant(data) ==
    LET subscripted == <<"characteristics", "combat_stats", "team", "initiative",
                         "is_active">>
        missing == SelectSeq(subscripted, LAMBDA k : k \notin DOMAIN data)
    IN  IF "personal_info" \notin DOMAIN data THEN Raised("KeyError", "personal_info")
        ELSE IF "name" \notin DOMAIN data.personal_info
        THEN Raised("TypeError", "name")
        ELSE IF missing # <<>> THEN Raised("KeyError", Head(missing))
        ELSE [ok |-> TRUE, raised |-> "none", field |-> "none",
              object |->
                [name |-> data.personal_info.name, team |-> data.team,
                 initiative |-> data.initiative, is_active |-> data.is_active,
                 position |-> <<0, 0>>,
                 is_player_character |-> TRUE,
                 characteristics |-> Characteristics(data.characteristics),
                 combat_stats |-> CombatStats(data.combat_stats),
                 conditions |-> LET cs == Get(data, "conditions", <<>>)
                                IN  [i \in DOMAIN cs |-> cs[i].name],
                 talents |-> {t.name : t \in Get(data, "talents", {})},
                 equipment |-> LET es == Get(data, "equipment", <<>>)
                               IN  [i \in DOMAIN es |-> item_of_dict(es[i])]]]

\* the Character object of c, as a caller of character_io holds it
CharacterObject(c) ==
    [identifier |-> c, name |-> c,
     is_player_character |-> Character(c).is_player_character,
     characteristics |-> Characteristics(Character(c)),
     combat_stats |-> [wounds |-> wounds[c],
                       armor_points |-> Character(c).armor_points],
     conditions |-> conditions[c], talents |-> Character(c).talents,
     equipment |-> Character(c).equipment]

\* character_io.dataclass_to_dict of a Character
dataclass_to_dict(character) ==
    [identifier |-> character.identifier,
     personal_info |-> [name |-> character.name],
     character_role |-> [is_player_character |-> character.is_player_character],
     characteristics |-> character.characteristics,
     combat_stats |-> character.combat_stats,
     conditions |-> [i \in DOMAIN character.conditions |->
                        [name |-> character.conditions[i]]],
     talents |-> {[name |-> t] : t \in character.talents},
     equipment |-> [i \in DOMAIN character.equipment |->
                       item_to_dict(character.equipment[i])]]

\* character_io.dict_to_dataclass(data, Character): a missing key is skipped and the
\* constructor's default stands in; the constructor raises TypeError for a missing
\* argument without default; list items are built as the declared item type
dict_to_dataclass(data) ==
    LET required == <<"identifier", "personal_info", "character_role",
                      "characteristics">>
        missing == SelectSeq(required, LAMBDA k : k \notin DOMAIN data)
    IN  IF "personal_info" \in DOMAIN data /\ "name" \notin DOMAIN data.personal_info
        THEN Raised("TypeError", "name")
        ELSE IF missing # <<>> THEN Raised("TypeError", Head(missing))
        ELSE [ok |-> TRUE, raised |-> "none", field |-> "none",
              object |->
                [identifier |-> data.identifier, name |-> data.personal_info.name,
                 is_player_character |->
                     Get(data.character_role, "is_player_character", TRUE),
                 characteristics |-> Characteristics(data.characteristics),
                 combat_stats |-> CombatStats(Get(data, "combat_stats", <<>>)),
                 conditions |-> LET cs == Get(data, "conditions", <<>>)
                                IN  [i \in DOMAIN cs |-> cs[i].name],
                 talents |-> {t.name : t \in Get(data, "talents", {})},
                 equipment |-> LET es == Get(data, "equipment", <<>>)
                               IN  [i \in DOMAIN es |->
                                      [cls |-> "EquipmentItem",
                                       name |-> es[i].name]]]]

\* a record a field of which was lost in storage: "wounds" is the one of
\* combat_stats, "weapon_skill" the one of characteristics, any other a top-level key
Lose(data, key) ==
    CASE key = "none" -> data
      [] key = "wounds" -> [data EXCEPT !.combat_stats = Without(@, "wounds")]
      [] key = "weapon_skill" ->
             [data EXCEPT !.characteristics = Without(@, "weapon_skill")]
      [] OTHER -> Without(data, key)

\* the fields a file the tracker imports may have lost, and a character file
ImportLosses == {"none", "team", "combat_stats", "wounds", "weapon_skill"}
LoadLosses == {"none", "characteristics", "combat_stats", "wounds", "weapon_skill"}

-----------------------------------------------------------------------------
(* The state machine *)

Engines == {"battle", "warhammer"}

\* a battle constructed and not started: Battle.__init__ on a roster
BattleInit ==
    /\ mode \in Engines
    /\ combatants \in Rosters
    /\ initiative = [c \in Range(combatants) |-> 0]
    /\ pc = "NotStarted"

\* the tracker's window with its table filled: every row got its initiative from
\* roll_initiative (add_character) and update_table has sorted the rows
TrackerInit ==
    /\ mode = "tracker"
    /\ \E table \in Tables, roll \in D10 :
         /\ initiative = [c \in Range(table) |-> roll_initiative(c, roll)]
         /\ combatants = sorted_reverse(table, initiative)
    /\ pc = "Tracker"

\* a caller of character_io with a character in hand
CharacterIOInit ==
    /\ mode = "character_io"
    /\ combatants \in Tables
    /\ initiative = [c \in Range(combatants) |-> 0]
    /\ pc = "IO"

Init ==
    /\ BattleInit \/ TrackerInit \/ CharacterIOInit
    /\ wounds = [c \in Range(combatants) |-> Character(c).wounds]
    /\ is_active = [c \in Range(combatants) |-> Character(c).is_active]
    /\ position = [c \in Range(combatants) |-> Character(c).position]
    /\ conditions = [c \in Range(combatants) |-> <<>>]
    /\ turn_order = <<>>
    /\ round_number = 0
    /\ idx = 0
    /\ turns = [c \in Range(combatants) |-> 0]
    /\ rounds = 0
    /\ last = NoStep

\* Battle.start_battle up to its loop: determine_initiative, round_number = 1
StartBattle ==
    /\ pc = "NotStarted"
    /\ \E rolls \in [Range(combatants) -> D10] :
         /\ initiative' = [c \in Range(combatants) |-> roll_initiative(c, rolls[c])]
         /\ turn_order' = sorted_reverse(combatants, initiative')
    /\ round_number' = 1
    /\ pc' = "Boundary"
    /\ last' = [NoStep EXCEPT !.op = "start_battle"]
    /\ UNCHANGED <<mode, combatants, wounds, is_active, position, conditions, idx,
                   turns, rounds>>

\* a loop test that also ends the battle in the middle of a round
CheckOver_mid_round ==
    /\ pc \in {"Boundary", "InRound"}
    /\ is_battle_over(combatants, is_active, wounds) \/ round_number <= MaxRounds
    /\ IF is_battle_over(combatants, is_active, wounds)
       THEN pc' = "Over" /\ idx' = idx /\ turns' = turns
       ELSE pc' = "InRound" /\ idx' = 1 /\ turns' = [c \in DOMAIN turns |-> 0]
    /\ last' = [NoStep EXCEPT !.op = "is_battle_over"]
    /\ UNCHANGED <<mode, combatants, wounds, is_active, initiative, position,
                   conditions, turn_order, round_number, rounds>>

\* the loop condition of start_battle: while not self.is_battle_over()
CheckOver ==
    /\ pc = "Boundary"
    /\ is_battle_over(combatants, is_active, wounds) \/ round_number <= MaxRounds
    /\ IF is_battle_over(combatants, is_active, wounds)
       THEN pc' = "Over" /\ idx' = idx /\ turns' = turns
       ELSE pc' = "InRound" /\ idx' = 1 /\ turns' = [c \in DOMAIN turns |-> 0]
    /\ last' = [NoStep EXCEPT !.op = "is_battle_over"]
    /\ UNCHANGED <<mode, combatants, wounds, is_active, initiative, position,
                   conditions, turn_order, round_number, rounds>>

\* a turn whose attack also costs the attacker a wound
TurnEffect_recoil(c, r) ==
    /\ wounds' = IF r.action = "Attack" /\ r.armed /\ r.raised = "none"
                 THEN [wounds EXCEPT ![r.target] =
                           wounds_after(wounds, r.target, r.net_damage),
                                     ![c] = Max(@ - 1, 0)]
                 ELSE wounds
    /\ position' = IF r.action = "Move" THEN [position EXCEPT ![c] = <<0, 0>>]
                   ELSE position
    /\ IF r.raised = "none" THEN pc' = pc /\ idx' = idx + 1
                            ELSE pc' = "Error" /\ idx' = idx
    /\ turns' = [turns EXCEPT ![c] = @ + 1]
    /\ last' = r

\* the state after the turn recorded in r
TurnEffect(c, r) ==
    /\ wounds' = IF r.action = "Attack" /\ r.armed /\ r.raised = "none"
                 THEN [wounds EXCEPT ![r.target] =
                           wounds_after(wounds, r.target, r.net_damage)]
                 ELSE wounds
    /\ position' = IF r.action = "Move" THEN [position EXCEPT ![c] = <<0, 0>>]
                   ELSE position
    /\ IF r.raised = "none" THEN pc' = pc /\ idx' = idx + 1
                            ELSE pc' = "Error" /\ idx' = idx
    /\ turns' = [turns EXCEPT ![c] = @ + 1]
    /\ last' = r

\* the test of execute_round without is_conscious()
gets_turn_if_active(c) == is_active[c]

\* the test of execute_round: the combatant gets its turn
gets_turn(c) == is_active[c] /\ is_conscious(wounds, c)

\* an iteration that takes a combatant brought to 0 wounds out of the battle
ExecuteSlot_deactivates ==
    /\ pc = "InRound"
    /\ idx <= Len(turn_order)
    /\ LET c == turn_order[idx]
           asked == mode = "battle" /\ Character(c).is_player_character
           target == find_target(combatants, wounds, c)
       IN  IF gets_turn(c)
           THEN \E choice \in IF asked THEN MenuInputs ELSE {""} :
                \E damage_choice \in IF asked /\ choice = "1" /\ target # "none"
                                     THEN MenuInputs ELSE {""} :
                  LET a == decide_action(mode, combatants, wounds, c, choice,
                                         damage_choice)
                      hits == a.kind = "Attack" /\ mode = "battle"
                  IN  \E attack_roll \in IF a.kind = "Attack" THEN D100 ELSE {0} :
                      \E defense_choice \in
                            IF hits /\ attack_roll <= Character(c).weapon_skill
                               /\ Character(a.target).is_player_character
                            THEN MenuInputs ELSE {""} :
                      \E defense_roll \in
                            IF hits /\ attack_roll <= Character(c).weapon_skill
                               /\ decide_defense_method(a.target, defense_choice)
                                      \in {"parry", "dodge"}
                            THEN D100 ELSE {0} :
                        TurnEffect(c, execute_turn(mode, combatants, wounds, c, choice,
                                                   damage_choice, attack_roll,
                                                   defense_choice, defense_roll))
           ELSE /\ idx' = idx + 1
                /\ last' = [NoStep EXCEPT !.op = "skip", !.actor = c]
                /\ UNCHANGED <<wounds, position, pc, turns>>
    /\ is_active' = [d \in DOMAIN is_active |-> is_active[d] /\ wounds'[d] > 0]
    /\ UNCHANGED <<mode, combatants, initiative, conditions, turn_order,
                   round_number, rounds>>

\* one iteration of Battle.execute_round's loop over turn_order
ExecuteSlot ==
    /\ pc = "InRound"
    /\ idx <= Len(turn_order)
    /\ LET c == turn_order[idx]
           asked == mode = "battle" /\ Character(c).is_player_character
           target == find_target(combatants, wounds, c)
       IN  IF gets_turn(c)
           THEN \E choice \in IF asked THEN MenuInputs ELSE {""} :
                \E damage_choice \in IF asked /\ choice = "1" /\ target # "none"
                                     THEN MenuInputs ELSE {""} :
                  LET a == decide_action(mode, combatants, wounds, c, choice,
                                         damage_choice)
                      hits == a.kind = "Attack" /\ mode = "battle"
                  IN  \E attack_roll \in IF a.kind = "Attack" THEN D100 ELSE {0} :
                      \E defense_choice \in
                            IF hits /\ attack_roll <= Character(c).weapon_skill
                               /\ Character(a.target).is_player_character
                            THEN MenuInputs ELSE {""} :
                      \E defense_roll \in
                            IF hits /\ attack_roll <= Character(c).weapon_skill
                               /\ decide_defense_method(a.target, defense_choice)
                                      \in {"parry", "dodge"}
                            THEN D100 ELSE {0} :
                        TurnEffect(c, execute_turn(mode, combatants, wounds, c, choice,
                                                   damage_choice, attack_roll,
                                                   defense_choice, defense_roll))
           ELSE /\ idx' = idx + 1
                /\ last' = [NoStep EXCEPT !.op = "skip", !.actor = c]
                /\ UNCHANGED <<wounds, position, pc, turns>>
    /\ UNCHANGED <<mode, combatants, is_active, initiative, conditions, turn_order,
                   round_number, rounds>>

\* an end of round that rolls initiative again
EndRound_rerolls ==
    /\ pc = "InRound"
    /\ idx > Len(turn_order)
    /\ \E rolls \in [Range(combatants) -> D10] :
         /\ initiative' = [c \in Range(combatants) |-> roll_initiative(c, rolls[c])]
         /\ turn_order' = sorted_reverse(combatants, initiative')
    /\ round_number' = round_number + 1
    /\ rounds' = rounds + 1
    /\ pc' = "Boundary"
    /\ last' = [NoStep EXCEPT !.op = "end_round"]
    /\ UNCHANGED <<mode, combatants, wounds, is_active, position, conditions, idx, turns>>

\* an end of round that counts the round twice
EndRound_counts_twice ==
    /\ pc = "InRound"
    /\ idx > Len(turn_order)
    /\ round_number' = round_number + 2
    /\ rounds' = rounds + 1
    /\ pc' = "Boundary"
    /\ last' = [NoStep EXCEPT !.op = "end_round"]
    /\ UNCHANGED <<mode, combatants, wounds, is_active, initiative, position,
                   conditions, turn_order, idx, turns>>

\* the end of a round: execute_round returns, round_number += 1
EndRound ==
    /\ pc = "InRound"
    /\ idx > Len(turn_order)
    /\ round_number' = round_number + 1
    /\ rounds' = rounds + 1
    /\ pc' = "Boundary"
    /\ last' = [NoStep EXCEPT !.op = "end_round"]
    /\ UNCHANGED <<mode, combatants, wounds, is_active, initiative, position,
                   conditions, turn_order, idx, turns>>

\* MainWindow.apply_damage on the selected row (0: none selected), with the texts of
\* the damage and condition fields and the entry of the damage type box
apply_damage(row, text, damage_type_str, condition_name) ==
    LET damage_amount == int(text)
        c == combatants[row]
        damage_type == tracker_damage_type(damage_type_str)
        net_damage == calculate_net_damage_static(Character(c).toughness,
                          Character(c).armor_points, damage_amount.value, damage_type)
    IN  IF row = 0
        THEN /\ last' = [NoStep EXCEPT !.op = "apply_damage", !.raised = "No Selection"]
             /\ UNCHANGED <<combatants, wounds, is_active, conditions>>
        ELSE IF ~damage_amount.ok
        THEN /\ last' = [NoStep EXCEPT !.op = "apply_damage", !.actor = c,
                                       !.raised = "Invalid Input"]
             /\ UNCHANGED <<combatants, wounds, is_active, conditions>>
        ELSE /\ wounds' = [wounds EXCEPT ![c] = wounds_after(wounds, c, net_damage)]
             /\ conditions' = IF condition_name # ""
                              THEN [conditions EXCEPT ![c] = Append(@, condition_name)]
                              ELSE conditions
             /\ is_active' = IF wounds'[c] <= 0 THEN [is_active EXCEPT ![c] = FALSE]
                             ELSE is_active
             \* update_table
             /\ combatants' = sorted_reverse(combatants, initiative)
             /\ last' = [NoStep EXCEPT !.op = "apply_damage", !.target = c,
                            !.damage_type = damage_type,
                            !.base_damage = damage_amount.value,
                            !.net_damage = net_damage]

\* a click on "Apply Damage/Condition"; the fields the handler does not get to read
\* are left out of the choice
TrackerApplyDamage ==
    /\ pc = "Tracker"
    /\ \E row \in 0..Len(combatants) :
       \E text \in IF row = 0 THEN {<<>>} ELSE DamageTexts :
       \E damage_type_str \in IF row # 0 /\ int(text).ok THEN DamageTypeEntries
                              ELSE {"Normal"} :
       \E condition_name \in IF row # 0 /\ int(text).ok
                                /\ SumLen(conditions, DOMAIN conditions) < MaxConditions
                             THEN ConditionTexts ELSE {""} :
         apply_damage(row, text, damage_type_str, condition_name)
    /\ UNCHANGED <<mode, initiative, position, turn_order, round_number, pc, idx,
                   turns, rounds>>

\* MainWindow.export_battle: the table written to the file as a list of records
ExportBattle ==
    /\ pc = "Tracker"
    /\ last' = [NoStep EXCEPT !.op = "export_battle",
                   !.file = [i \in DOMAIN combatants |->
                                combatant_to_dict(CombatantObject(combatants[i]))]]
    /\ UNCHANGED <<mode, combatants, wounds, is_active, initiative, position,
                   conditions, turn_order, round_number, pc, idx, turns, rounds>>

\* MainWindow.import_battle of the file data: the list comprehension over
\* dict_to_combatant, the assignment of self.combatants and update_table; an
\* exception leaves the table as it was (the message box tells it)
import_battle(data, row, key) ==
    \* the list is built once, before the window takes anything from it
    \E results \in {[i \in DOMAIN data |-> dict_to_combatant(data[i])]} :
    LET failed == {i \in DOMAIN results : ~results[i].ok}
        first == CHOOSE i \in failed : \A j \in failed : i <= j
        objects == [i \in DOMAIN results |-> results[i].object]
        of(c) == objects[CHOOSE i \in DOMAIN objects : objects[i].name = c]
        names == [i \in DOMAIN objects |-> objects[i].name]
    IN  IF failed # {}
        THEN /\ last' = [NoStep EXCEPT !.op = "import_battle", !.file = data,
                            !.lost = key, !.actor = combatants[row],
                            !.raised = results[first].raised,
                            !.field = results[first].field]
             /\ UNCHANGED <<combatants, wounds, is_active, initiative, position,
                            conditions>>
        ELSE /\ initiative' = [c \in Range(names) |-> of(c).initiative]
             /\ wounds' = [c \in Range(names) |-> of(c).combat_stats.wounds]
             /\ is_active' = [c \in Range(names) |-> of(c).is_active]
             /\ position' = [c \in Range(names) |-> of(c).position]
             /\ conditions' = [c \in Range(names) |-> of(c).conditions]
             \* update_table
             /\ combatants' = sorted_reverse(names, initiative')
             /\ last' = [NoStep EXCEPT !.op = "import_battle", !.file = data,
                            !.lost = key, !.actor = combatants[row],
                            !.loaded = objects]

\* "Import Battle" on a file export_battle wrote for the table shown, whole or with
\* one field of one row lost
ImportBattle ==
    /\ pc = "Tracker"
    /\ \E row \in DOMAIN combatants, key \in ImportLosses :
         LET written == [i \in DOMAIN combatants |->
                            combatant_to_dict(CombatantObject(combatants[i]))]
         IN  import_battle([written EXCEPT ![row] = Lose(@, key)], row, key)
    /\ UNCHANGED <<mode, turn_order, round_number, pc, idx, turns, rounds>>

\* character_io.save_character_to_json of the character in hand
SaveCharacter ==
    /\ pc = "IO"
    /\ \E row \in DOMAIN combatants :
         last' = [NoStep EXCEPT !.op = "save_character", !.actor = combatants[row],
                     !.file = <<dataclass_to_dict(CharacterObject(combatants[row]))>>]
    /\ UNCHANGED <<mode, combatants, wounds, is_active, initiative, position,
                   conditions, turn_order, round_number, pc, idx, turns, rounds>>

\* character_io.load_character_from_json of a file save_character_to_json wrote for
\* the character in hand, whole or with one field lost: the Character it returns,
\* or the exception it logs and raises again
LoadCharacter ==
    /\ pc = "IO"
    /\ \E row \in DOMAIN combatants, key \in LoadLosses :
         LET data == Lose(dataclass_to_dict(CharacterObject(combatants[row])), key)
             result == dict_to_dataclass(data)
         IN  last' = [NoStep EXCEPT !.op = "load_character",
                         !.actor = combatants[row], !.file = <<data>>, !.lost = key,
                         !.raised = result.raised, !.field = result.field,
                         !.loaded = IF result.ok THEN <<result.object>> ELSE <<>>]
    /\ UNCHANGED <<mode, combatants, wounds, is_active, initiative, position,
                   conditions, turn_order, round_number, pc, idx, turns, rounds>>

Next ==
    \/ StartBattle
    \/ CheckOver
    \/ ExecuteSlot
    \/ EndRound
    \/ TrackerApplyDamage
    \/ ExportBattle
    \/ ImportBattle
    \/ SaveCharacter
    \/ LoadCharacter

Spec == Init /\ [][Next]_vars

\* start_battle alone, on the complete engine: a single synchronous loop, which
\* takes its next step whenever it has one
BattleNext ==
    \/ StartBattle
    \/ CheckOver
    \/ ExecuteSlot
    \/ EndRound

\* a battle of the complete engine, constructed
FairInit == Init /\ mode = "battle"

FairSpec == FairInit /\ [][BattleNext]_vars /\ WF_vars(BattleNext)

-----------------------------------------------------------------------------
(* What the properties read *)

\* the combatant counts toward the over-condition
Standing(c) == is_active[c] /\ wounds[c] > 0

TeamsStanding == {Character(c).team : c \in {d \in Range(combatants) : Standing(d)}}

\* the teams standing when the roster was built
TeamsStandingAtStart ==
    {Character(c).team :
        c \in {d \in Range(combatants) : Character(d).is_active /\ Character(d).wounds > 0}}

\* the place of c in the sequence s
PlaceIn(s, c) == CHOOSE i \in DOMAIN s : s[i] = c

\* base damage and reduction as section 4.4 of the design states them
StatedBase(attacker) ==
    Head(weapons(attacker)).damage + (Character(attacker).strength \div 10)
    + (IF "Strike Mighty Blow" \in Character(attacker).talents THEN 1 ELSE 0)

StatedReduction(toughness, armor_points, damage_type) ==
    CASE damage_type = "normal" -> (toughness \div 10) + armor_points
      [] damage_type = "ignore_armor" -> toughness \div 10
      [] damage_type = "pure" -> 0

StatedNet(attacker, defender, damage_type) ==
    Max(0, StatedBase(attacker)
           - StatedReduction(Character(defender).toughness,
                             Character(defender).armor_points, damage_type))

\* the roster of claim C1: everyone stands, is armed, can hit, and takes wounds off
\* every enemy with a normal hit; two teams at least
Reducible ==
    /\ \A c \in Range(combatants) :
         /\ Character(c).wounds > 0 /\ Character(c).is_active
         /\ has_weapon(c) /\ Character(c).weapon_skill > 0
         /\ \A d \in Range(combatants) :
              Character(d).team # Character(c).team => StatedNet(c, d, "normal") > 0
    /\ Cardinality({Character(c).team : c \in Range(combatants)}) >= 2

\* the last step was the tracker's apply_damage and it got to the damage
TrackerDamaged == last.op = "apply_damage" /\ last.raised = "none"

\* toughness and armour values the damage function is tried on beside the pool's
ToughnessValues == {0, 9, 10, 30, 99, 100}
ArmorValues == {0, 1, 2, 100}

-----------------------------------------------------------------------------
(* The claims *)

\* C1: a battle of the complete engine on a roster whose combatants all stand, are
\* armed, can hit and wound every enemy comes to an end: is_battle_over() returns
\* true and the loop halts (or, in this model, the rounds followed run out).
C1_Terminates ==
    (mode = "battle" /\ Reducible) => <>(pc = "Over" \/ round_number > MaxRounds)

\* C2: no action ever ends in an error: start_battle() is never aborted by an
\* exception raised inside AttackAction.execute / apply_damage.
C2_NoError == pc # "Error"

\* C3: after an attack that hits, is not defended and whose attacker has a weapon,
\* the defender's wounds are max(0, wounds - net), net as section 4.4 states it.
C3_HitWounds ==
    [][(/\ last'.op = "turn" /\ last'.action = "Attack"
        /\ last'.hit /\ ~last'.defense_success /\ has_weapon(last'.actor))
       => wounds'[last'.target] =
             Max(0, wounds[last'.target]
                    - StatedNet(last'.actor, last'.target, last'.damage_type))]_vars

\* C4: wounds never drop below 0 and no step (an attack of either engine, the
\* tracker's apply_damage with any amount and type) increases them; the net damage
\* of every step is >= 0.
C4_WoundsClamped ==
    [][/\ \A c \in DOMAIN wounds : wounds'[c] >= 0 /\ wounds'[c] <= wounds[c]
       /\ last'.net_damage >= 0]_vars

\* the tracker applied a negative amount of pure damage, and took nothing
C4_Witness ==
    /\ TrackerDamaged /\ last.base_damage < 0 /\ last.damage_type = "pure"
    /\ last.net_damage = 0 /\ wounds[last.target] > 0

\* C5: a round starts only at a boundary where two teams at least have an active
\* and conscious combatant, and start_battle() returns only with at most one.
C5_RoundsOnlyBetweenTeams ==
    [][/\ (pc = "Boundary" /\ pc' = "InRound") => Cardinality(TeamsStanding) >= 2
       /\ pc' = "InRound" => pc \in {"Boundary", "InRound"}
       /\ pc' = "Over" => Cardinality(TeamsStanding') <= 1]_vars

\* a battle that returned after executing rounds
C5_Witness == pc = "Over" /\ round_number > 1 /\ Cardinality(TeamsStanding) = 1

\* C6: from determine_initiative() on, turn_order is a permutation of combatants,
\* sorted by initiative descending, equal initiatives in their order in combatants.
C6_TurnOrderSorted ==
    (mode \in Engines /\ pc # "NotStarted") =>
        /\ Len(turn_order) = Len(combatants)
        /\ Range(turn_order) = Range(combatants)
        /\ \A i, j \in DOMAIN turn_order :
             i < j =>
               /\ turn_order[i] # turn_order[j]
               /\ initiative[turn_order[i]] >= initiative[turn_order[j]]
               /\ initiative[turn_order[i]] = initiative[turn_order[j]]
                    => PlaceIn(combatants, turn_order[i])
                         < PlaceIn(combatants, turn_order[j])

\* a turn order that differs from the roster and holds two equal initiatives
C6_Witness ==
    /\ mode \in Engines /\ pc # "NotStarted"
    /\ turn_order # combatants
    /\ \E i, j \in DOMAIN turn_order :
         i < j /\ initiative[turn_order[i]] = initiative[turn_order[j]]

\* C7: the combatant of the dispatched slot takes a turn if and only if it is active
\* and conscious at that moment, and no combatant takes two turns in a round.
C7_TurnIffStanding ==
    [][(pc = "InRound" /\ last'.op \in {"turn", "skip"}) =>
         LET c == turn_order[idx]
         IN  /\ last'.actor = c
             /\ last'.op = "turn" <=> (is_active[c] /\ wounds[c] > 0)
             /\ turns'[c] = turns[c] + (IF last'.op = "turn" THEN 1 ELSE 0)
             /\ \A d \in DOMAIN turns : turns'[d] <= 1 /\ (d # c => turns'[d] = turns[d])]_vars

\* a combatant that stood when the battle began, was brought to 0 wounds in round 1
\* and is skipped when its slot of round 1 comes up
C7_Witness ==
    /\ pc = "InRound" /\ round_number = 1 /\ last.op = "skip"
    /\ is_active[last.actor] /\ wounds[last.actor] = 0
    /\ Character(last.actor).wounds > 0

\* C8 as stated: for pure damage the net damage is the base damage exactly, for
\* every base damage calculate_net_damage_static is called with.
C8_PureExact ==
    (TrackerDamaged /\ last.damage_type = "pure") => last.net_damage = last.base_damage

\* C8 as amended: for pure damage the net damage is max(0, base damage), whatever
\* the toughness and the armour: the base damage exactly when it is >= 0, and 0 for
\* a negative amount typed into the tracker.
C8_PureClamped ==
    (TrackerDamaged /\ last.damage_type = "pure") =>
        /\ last.net_damage = Max(0, last.base_damage)
        /\ last.base_damage >= 0 => last.net_damage = last.base_damage
        /\ \A t \in ToughnessValues, a \in ArmorValues :
             calculate_net_damage_static(t, a, last.base_damage, "pure")
                = last.net_damage

\* pure damage on a character with toughness and armour, taken in full
C8_Witness ==
    /\ TrackerDamaged /\ last.damage_type = "pure" /\ last.base_damage > 0
    /\ Character(last.target).toughness >= 10
    /\ Character(last.target).armor_points > 0
    /\ last.net_damage = last.base_damage

\* C9: for ignore-armor damage the net damage is max(0, base - floor(toughness / 10))
\* whatever the armour points; for normal damage it is
\* max(0, base - floor(toughness / 10) - armor points).
C9_ReducedByType ==
    TrackerDamaged =>
        LET t == Character(last.target).toughness
            ap == Character(last.target).armor_points
            base == last.base_damage
        IN  /\ last.damage_type = "ignore_armor" =>
                 /\ last.net_damage = Max(0, base - (t \div 10))
                 /\ \A a \in ArmorValues :
                      calculate_net_damage_static(t, a, base, "ignore_armor")
                         = last.net_damage
            /\ last.damage_type = "normal" =>
                 /\ last.net_damage = Max(0, base - (t \div 10) - ap)
                 /\ \A u \in ToughnessValues, a \in ArmorValues :
                      calculate_net_damage_static(u, a, base, "normal")
                         = Max(0, base - (u \div 10) - a)

\* ignore-armor damage on an armoured character, reduced by its toughness alone
C9_Witness ==
    /\ TrackerDamaged /\ last.damage_type = "ignore_armor"
    /\ Character(last.target).armor_points > 0
    /\ Character(last.target).toughness >= 10
    /\ last.net_damage > 0 /\ last.net_damage < last.base_damage

\* C10: when at most one team stands at battle start, start_battle() determines
\* initiative, finds the battle over at the first boundary and returns: no round, no
\* turn, no change of wounds or positions, round_number 1.
C10_OverAtOnce ==
    (mode \in Engines /\ pc # "NotStarted" /\ Cardinality(TeamsStandingAtStart) <= 1) =>
        /\ pc \in {"Boundary", "Over"}
        /\ round_number = 1
        /\ last.op \in {"start_battle", "is_battle_over"}
        /\ \A c \in Range(combatants) :
             /\ turns[c] = 0
             /\ wounds[c] = Character(c).wounds
             /\ position[c] = Character(c).position
        /\ Len(turn_order) = Len(combatants)

\* scenario D: two teams in the roster, one of them stands; the battle has returned
C10_Witness ==
    /\ mode = "battle" /\ pc = "Over"
    /\ Cardinality({Character(c).team : c \in Range(combatants)}) = 2
    /\ Cardinality(TeamsStandingAtStart) = 1
    /\ \E c \in Range(combatants) : wounds[c] = 0

\* C11: an attack hits if and only if its roll, in 1..100, is <= the attacker's
\* weapon skill; a miss changes nothing and asks the defender nothing; an attacker
\* with weapon skill 0 never hits and never changes wounds.
C11_MissNoEffect ==
    [][(last'.op = "turn" /\ last'.action = "Attack") =>
          /\ last'.attack_roll \in 1..100
          /\ last'.hit <=> last'.attack_roll <= Character(last'.actor).weapon_skill
          /\ ~last'.hit =>
               /\ wounds' = wounds /\ is_active' = is_active /\ position' = position
               /\ conditions' = conditions /\ initiative' = initiative
               /\ turn_order' = turn_order /\ pc' = pc
               /\ last'.defense_method = "none" /\ last'.defense_choice = ""
               /\ last'.defense_roll = 0 /\ last'.raised = "none"
          /\ Character(last'.actor).weapon_skill = 0 =>
               ~last'.hit /\ wounds' = wounds]_vars

\* scenario C in the complete engine: an armed attacker with weapon skill 0 has
\* attacked a standing enemy and missed
C11_Witness ==
    /\ mode = "battle" /\ last.op = "turn" /\ last.action = "Attack"
    /\ Character(last.actor).weapon_skill = 0 /\ has_weapon(last.actor)
    /\ ~last.hit /\ wounds[last.target] > 0

\* C12: on a hit the defense succeeds exactly when the method is parry and the roll
\* is <= the defender's weapon skill, or the method is dodge and the roll is <= the
\* defender's agility; special never succeeds; a successful defense leaves every
\* state unchanged, a failed one gets to the damage step.
C12_DefenseOutcome ==
    [][(mode = "battle" /\ last'.op = "turn" /\ last'.action = "Attack" /\ last'.hit) =>
          LET r == last'
              d == Character(r.target)
          IN  /\ r.defense_method \in {"parry", "dodge", "special"}
              /\ r.defense_method # "special" => r.defense_roll \in 1..100
              /\ r.defense_success <=>
                    \/ r.defense_method = "parry" /\ r.defense_roll <= d.weapon_skill
                    \/ r.defense_method = "dodge" /\ r.defense_roll <= d.agility
              /\ r.defense_method = "special" => ~r.defense_success
              /\ r.defense_success =>
                    /\ wounds' = wounds /\ is_active' = is_active
                    /\ position' = position /\ conditions' = conditions
                    /\ initiative' = initiative /\ turn_order' = turn_order
                    /\ pc' = pc /\ ~r.armed /\ r.raised = "none"
              /\ ~r.defense_success =>
                    /\ r.armed <=> has_weapon(r.actor)
                    /\ r.armed => r.base_damage = StatedBase(r.actor)]_vars

\* a hit that the defender parried or dodged
C12_Witness ==
    /\ mode = "battle" /\ last.op = "turn" /\ last.action = "Attack" /\ last.hit
    /\ last.defense_success /\ last.defense_method \in {"parry", "dodge"}
    /\ has_weapon(last.actor)
    /\ wounds[last.target] = Character(last.target).wounds

\* C13: when the attacker has no equipped weapon the attack stops at the hit check:
\* after a hit no defense method is asked for and no defense roll is made, wounds
\* are unchanged and the turn ends without an error.
C13_NoWeaponStopsAtHit ==
    [][(last'.op = "turn" /\ last'.action = "Attack" /\ last'.hit
        /\ ~has_weapon(last'.actor)) =>
          /\ last'.defense_method = "none" /\ last'.defense_choice = ""
          /\ last'.defense_roll = 0
          /\ wounds' = wounds
          /\ last'.raised = "none" /\ pc' = pc]_vars

\* the wounds a roster can have, each combatant up or down
UpOrDown == [Range(combatants) -> {0, 1}]

\* C14: a player's input outside the menu never fails the turn: an invalid action
\* choice gives Defend, an invalid defense choice gives dodge (the turn then goes as
\* it does after choosing dodge), and Attack with no conscious enemy gives Defend.
C14_InvalidInputDefaults ==
    [][(mode = "battle" /\ last'.op = "turn") =>
          LET r == last'
              a == [kind |-> "Attack", actor |-> r.actor, target |-> r.target,
                    damage_type |-> r.damage_type, choice |-> r.choice,
                    damage_choice |-> r.damage_choice]
          IN  /\ (Character(r.actor).is_player_character
                  /\ r.choice \notin {"1", "2", "3"}) =>
                    /\ r.action = "Defend" /\ r.raised = "none"
                    /\ pc' = pc /\ wounds' = wounds /\ position' = position
              /\ (Character(r.actor).is_player_character /\ r.choice = "1"
                  /\ find_target(combatants, wounds, r.actor) = "none") =>
                    r.action = "Defend" /\ r.raised = "none"
              /\ (Character(r.actor).is_player_character /\ r.choice = "1") =>
                    \A w \in UpOrDown :
                       find_target(combatants, w, r.actor) = "none" =>
                          get_player_action(combatants, w, r.actor, "1",
                                            r.damage_choice).kind = "Defend"
              /\ (r.action = "Attack" /\ r.hit
                  /\ Character(r.target).is_player_character
                  /\ r.defense_choice \notin {"1", "2", "3"}) =>
                    /\ r.defense_method = "dodge"
                    /\ r = [battle_attack(wounds, a, r.attack_roll, "2", r.defense_roll)
                              EXCEPT !.defense_choice = r.defense_choice]]_vars

\* a player, hit, answered the defense menu with something not on it
C14_Witness ==
    /\ mode = "battle" /\ last.op = "turn" /\ last.action = "Attack" /\ last.hit
    /\ Character(last.target).is_player_character
    /\ last.defense_choice = "x" /\ last.defense_method = "dodge"

\* C15: start_battle() rolls initiative once for every combatant, before round 1;
\* from then on no initiative and no place in turn_order changes, however many
\* rounds run.
C15_InitiativeRolledOnce ==
    [][(mode \in Engines) =>
          /\ pc = "NotStarted" =>
                /\ round_number = 0 /\ turn_order = <<>>
                /\ \A c \in Range(combatants) : initiative[c] = 0
          /\ (pc = "NotStarted" /\ pc' # "NotStarted") =>
                /\ \A c \in Range(combatants) :
                     \E roll \in 1..10 : initiative'[c] = roll_initiative(c, roll)
                /\ round_number' = 1
          /\ pc # "NotStarted" =>
                /\ pc' # "NotStarted"
                /\ initiative' = initiative /\ turn_order' = turn_order]_vars

\* the second round of a battle is under way
C15_Witness ==
    /\ mode = "battle" /\ pc = "InRound" /\ round_number = 2 /\ idx > 1
    /\ \A c \in Range(combatants) : initiative[c] > Character(c).initiative

\* C16: round_number is 0 until the battle starts, 1 at the first round boundary,
\* and goes up by exactly 1 at the end of every round run through all of turn_order
\* and at no other time; when start_battle() returns it is 1 + the rounds executed.
C16_RoundNumberCounts ==
    [][(mode \in Engines) =>
          /\ pc = "NotStarted" => round_number = 0 /\ rounds = 0
          /\ (pc = "NotStarted" /\ pc' # "NotStarted") =>
                pc' = "Boundary" /\ round_number' = 1 /\ rounds' = 0
          /\ pc # "NotStarted" =>
                /\ round_number = 1 + rounds
                /\ \/ round_number' = round_number /\ rounds' = rounds
                   \/ /\ round_number' = round_number + 1 /\ rounds' = rounds + 1
                      /\ pc = "InRound" /\ idx = Len(turn_order) + 1
                      /\ pc' = "Boundary"
                /\ (pc = "InRound" /\ pc' = "Boundary") =>
                      round_number' = round_number + 1
                /\ pc' = "Over" => round_number' = 1 + rounds']_vars

\* start_battle() has returned after one executed round
C16_Witness ==
    /\ mode \in Engines /\ pc = "Over" /\ rounds = 1 /\ round_number = 2

\* C19: the over-condition is evaluated between rounds only: a round that has
\* started goes through all of turn_order before is_battle_over() is asked again.
\* When the last conscious enemy falls in mid-round, each later combatant that is
\* active and conscious still takes its turn (it finds no target and does not
\* attack: an automated one defends) and the battle ends at the next boundary.
C19_OverOnlyBetweenRounds ==
    [][(mode \in Engines) =>
          /\ last'.op = "is_battle_over" => pc = "Boundary"
          /\ pc' = "Over" => pc = "Boundary"
          /\ (pc = "InRound" /\ pc' = "Boundary") => idx = Len(turn_order) + 1
          /\ (pc = "InRound" /\ idx <= Len(turn_order)) =>
                LET c == turn_order[idx]
                IN  /\ pc' \in {"InRound", "Error"}
                    /\ (is_active[c] /\ wounds[c] > 0) =>
                          last'.op = "turn" /\ last'.actor = c
                          /\ turns'[c] = turns[c] + 1
                    /\ (is_active[c] /\ wounds[c] > 0
                        /\ find_target(combatants, wounds, c) = "none") =>
                          /\ last'.action # "Attack" /\ pc' = "InRound"
                          /\ last'.choice = "" => last'.action = "Defend"]_vars

\* in mid-round, the last conscious enemy has fallen in this round and a combatant
\* after it in turn_order has taken its turn, defending
C19_Witness ==
    /\ mode \in Engines /\ pc = "InRound"
    /\ is_battle_over(combatants, is_active, wounds)
    /\ last.op = "turn" /\ last.action = "Defend"
    /\ \E d \in Range(combatants) :
         /\ Character(d).team # Character(last.actor).team
         /\ wounds[d] = 0 /\ Character(d).wounds > 0

\* C20: every action the battle loop executes is of an actor that is active and
\* conscious when the action is made, and every Attack it executes has a target of
\* another team with wounds > 0 when the attack resolves: an unconscious combatant
\* is never targeted.
C20_ActorAndTargetStand ==
    [][(mode \in Engines /\ last'.op = "turn") =>
          /\ last'.actor \in Range(combatants)
          /\ is_active[last'.actor] /\ wounds[last'.actor] > 0
          /\ last'.action \in {"Attack", "Move", "Defend"}
          /\ last'.action = "Attack" =>
                /\ last'.target \in Range(combatants)
                /\ Character(last'.target).team # Character(last'.actor).team
                /\ wounds[last'.target] > 0
          /\ last'.action # "Attack" => last'.target = "none"]_vars

\* an attack went to a standing enemy past an enemy lying at 0 wounds before it in
\* the roster
C20_Witness ==
    /\ mode \in Engines /\ last.op = "turn" /\ last.action = "Attack"
    /\ \E d \in Range(combatants) :
         /\ Character(d).team # Character(last.actor).team
         /\ wounds[d] = 0 /\ d # last.target
         /\ PlaceIn(combatants, d) < PlaceIn(combatants, last.target)

\* C17: loading a record that lacks a combat-relevant field fails loudly: the load
\* ends in an error that names the field and yields no combatant or character,
\* never an object with a default in the field's place.
C17_LoadFailsLoudly ==
    (last.op \in {"import_battle", "load_character"} /\ last.lost # "none") =>
        /\ last.raised # "none"
        /\ last.field = last.lost
        /\ last.loaded = <<>>

\* the equipped weapons of a loaded or held object
WeaponsOf(object) == SelectSeq(object.equipment, LAMBDA item : item.cls = "Weapon")

\* the two objects have the same combat-relevant state
SameCombatState(a, b) ==
    /\ a.characteristics = b.characteristics
    /\ a.combat_stats = b.combat_stats
    /\ a.talents = b.talents
    /\ a.conditions = b.conditions
    /\ a.is_player_character = b.is_player_character
    /\ WeaponsOf(a) = WeaponsOf(b)

\* C18: saving and loading again gives back the same combat-relevant state: team,
\* initiative, is_active, characteristics, wounds and armor points, talents,
\* conditions, the player flag, and every equipped Weapon as a Weapon of the same
\* damage (tracker: combatant_to_dict then dict_to_combatant; character_io:
\* dataclass_to_dict then dict_to_dataclass).
C18_RoundTrip ==
    [][(last'.op \in {"import_battle", "load_character"} /\ last'.lost = "none") =>
          /\ last'.raised = "none"
          /\ Len(last'.loaded) = Len(last'.file)
          /\ last'.op = "load_character" =>
                SameCombatState(last'.loaded[1], CharacterObject(last'.actor))
          /\ last'.op = "import_battle" =>
                \A i \in DOMAIN last'.loaded :
                   LET held == CombatantObject(last'.loaded[i].name)
                   IN  /\ SameCombatState(last'.loaded[i], held)
                       /\ last'.loaded[i].team = held.team
                       /\ last'.loaded[i].initiative = held.initiative
                       /\ last'.loaded[i].is_active = held.is_active]_vars

\* the places in the roster of the conscious combatants of another team than self
FoesOf(self) ==
    {i \in DOMAIN combatants : /\ Character(combatants[i]).team # Character(self).team
                               /\ wounds[combatants[i]] > 0}

C22_EngineKeepsIsActive ==
    [][/\ (mode \in Engines) =>
             /\ is_active' = is_active
             /\ combatants' = combatants
       /\ (is_active' # is_active) =>
             /\ mode = "tracker" /\ last'.op = "apply_damage"
             /\ last'.raised = "none"
             /\ wounds'[last'.target] <= 0
             /\ is_active' = [is_active EXCEPT ![last'.target] = FALSE]
       /\ (last'.op = "apply_damage" /\ last'.raised = "none") =>
             LET c == last'.target
             IN  is_active'[c] = IF wounds'[c] <= 0 THEN FALSE ELSE is_active[c]]_vars

\* an attack of a battle brought its target to 0 wounds and the target is still
\* active
C22_Witness ==
    /\ mode \in Engines /\ last.op = "turn" /\ last.action = "Attack"
    /\ last.net_damage > 0
    /\ wounds[last.target] = 0 /\ is_active[last.target]

\* the wounds after the turn recorded in r, taken in the state of wounds w
WoundsAfterTurn(w, r) ==
    IF r.action = "Attack" /\ r.armed /\ r.raised = "none"
    THEN [w EXCEPT ![r.target] = wounds_after(w, r.target, r.net_damage)]
    ELSE w

\* C23: the simpler engine is a subset of the complete one: with the same roster,
\* rolls and decisions, the complete engine with every attack of type Normal and
\* every defense failing takes the same turn, leaves the same wounds after every
\* attack and goes on as the simpler engine does.
C23_SimplerIsSubset ==
    [][(mode = "warhammer" /\ last'.op = "turn") =>
          \A defense_choice \in MenuInputs, defense_roll \in D100 :
             LET r == execute_turn("battle", combatants, wounds, last'.actor, "1", "1",
                                   last'.attack_roll, defense_choice, defense_roll)
             IN  ~r.defense_success =>
                    /\ r.action = last'.action /\ r.target = last'.target
                    /\ r.hit = last'.hit
                    /\ r.raised = "none"
                    /\ WoundsAfterTurn(wounds, r) = wounds']_vars

\* C24: an attack changes at most the wounds of its target, and only downwards:
\* the attacker's and every other combatant's wounds, all initiatives and all
\* positions stay; Defend changes no state and Move only the actor's position;
\* hence no step of a battle raises any combatant's wounds.
C24_AttackTouchesTargetOnly ==
    [][(mode \in Engines) =>
          /\ \A c \in Range(combatants) : wounds'[c] <= wounds[c]
          /\ last'.op = "turn" =>
                /\ initiative' = initiative /\ is_active' = is_active
                /\ conditions' = conditions /\ combatants' = combatants
                /\ turn_order' = turn_order /\ round_number' = round_number
                /\ last'.action = "Attack" =>
                      /\ \A c \in Range(combatants) \ {last'.target} :
                            wounds'[c] = wounds[c]
                      /\ last'.target # last'.actor
                      /\ position' = position
                /\ last'.action = "Defend" =>
                      wounds' = wounds /\ position' = position
                /\ last'.action = "Move" =>
                      /\ wounds' = wounds
                      /\ \A c \in Range(combatants) \ {last'.actor} :
                            position'[c] = position[c]
          /\ last'.op # "turn" => wounds' = wounds /\ position' = position]_vars

\* an attack took wounds from its target, in a battle of three or more, by an
\* attacker that had lost wounds itself
C24_Witness ==
    /\ mode \in Engines /\ last.op = "turn" /\ last.action = "Attack"
    /\ last.net_damage > 0 /\ wounds[last.target] < Character(last.target).wounds
    /\ wounds[last.actor] < Character(last.actor).wounds
    /\ Len(combatants) >= 3

\* C25: a combatant with is_active = false, also one with wounds left, is never
\* the target of an attack and never loses wounds during a battle: find_target
\* returns only combatants that are active and conscious.
C25_InactiveNeverTargeted ==
    [][(mode \in Engines) =>
          /\ (last'.op = "turn" /\ last'.action = "Attack") => is_active[last'.target]
          /\ \A c \in Range(combatants) : ~is_active[c] => wounds'[c] = wounds[c]]_vars

=============================================================================
